---- MODULE Spec2Model ----
(***************************************************************************)
(* Model of package gcsobj (reader.go): a seekable Reader over a Google    *)
(* Cloud Storage object.  The Reader's fields pos, size, nread and r are   *)
(* the state; Read, Seek and Close are the actions.  The storage library   *)
(* (ObjectHandle.NewRangeReader, storage.Reader.Read/Close) is the         *)
(* environment: its outcomes are nondeterministic choices.                 *)
(***************************************************************************)
EXTENDS Integers, Sequences, FiniteSets, TLC

\* ---------------------------------------------------------------- bounds
MaxLen == 2        \* longest object
MaxSize == 2       \* largest size handed to NewReaderWithSize
MaxOff == 1        \* Seek offsets range over -MaxOff..MaxOff
MaxPos == 3        \* positions are kept within -MaxPos..MaxPos
MaxBuf == 2        \* longest dest buffer handed to Read
MaxFetch == 2      \* NewRangeReader calls per behaviour
MaxDrainLen == 5   \* longest object that is read to its end
MaxNRead == 3      \* cap on the nread counter

\* ------------------------------------------------- io package constants
SeekStart == 0
SeekCurrent == 1
SeekEnd == 2

Whences == {SeekStart, SeekCurrent, SeekEnd, 3}
Offsets == (0 - MaxOff)..MaxOff
BufLens == 0..MaxBuf

\* The objects: byte i of an object has the value i.
Objects == {[i \in 1..n |-> i - 1] : n \in 0..MaxLen}

Min(a, b) == IF a < b THEN a ELSE b
Max(a, b) == IF a > b THEN a ELSE b

VARIABLES
  object,    \* content of the remote object behind obj (fixed)
  size,      \* Reader.size
  pos,       \* Reader.pos
  nread,     \* Reader.nread
  r,         \* Reader.r: 0 is nil, otherwise the index of a stream in streams
  streams,   \* every storage.Reader that NewRangeReader has returned
  fetches,   \* number of NewRangeReader calls issued so far
  total,     \* sum of the byte counts returned by Read so far
  readCalled,\* TRUE once Read has been called
  last,      \* the last call and what it returned
  pc,        \* the line a Read in progress has reached ("idle": no Read)
  pend,      \* len(dest), n and err of the Read in progress
  obs,       \* the value the last NRead call of an observer returned
  step,      \* the number of calls of the worked scenario made so far
  p0         \* the position at which reading to the end started

\* The variables that only the specifications with an observer, with the
\* worked scenario and with a reader running to the end write.
xvars == <<pc, pend, obs, step, p0>>

vars == <<object, size, pos, nread, r, streams, fetches, total, readCalled,
          last, pc, pend, obs, step, p0>>

\* ------------------------------------------------------- the collaborator

\* A storage.Reader opened at offset off: a non-negative offset starts at
\* that byte, a negative offset (length -1) starts abs(off) bytes from the end.
OpenStream(off) ==
  [start |-> off,
   base |-> IF off >= 0 THEN off ELSE Max(0, Len(object) + off),
   delivered |-> 0,
   closes |-> 0]

\* obj.NewRangeReader(ctx, off, -1): fails, or returns a stream.  A request
\* starting past the end of the object can only fail.
NewRangeReader(off) ==
  {[err |-> "OpenErr", stream |-> OpenStream(off)]}
    \cup (IF off <= Len(object)
          THEN {[err |-> "nil", stream |-> OpenStream(off)]}
          ELSE {})

\* The object index (0-based) of the next byte of stream st.
Cursor(st) == st.base + st.delivered

\* storage.Reader.Read(dest) with len(dest) = k: the (n, err) pairs io.Reader
\* allows for a stream with Len(object) - Cursor(st) bytes left.
StreamRead(st, k) ==
  LET avail == Max(0, Len(object) - Cursor(st))
      most == Min(k, avail)
  IN  {[n |-> n, err |-> "nil"] : n \in (IF k = 0 THEN {0} ELSE 1..most)}
        \cup {[n |-> n, err |-> "ReadErr"] : n \in 0..most}
        \cup (IF avail <= k /\ k > 0 THEN {[n |-> avail, err |-> "EOF"]} ELSE {})

\* The bytes a stream hands out when it delivers n bytes.
StreamData(st, n) == SubSeq(object, Cursor(st) + 1, Cursor(st) + n)

\* storage.Reader.Close: the error it returns.
StreamCloseErrs == {"nil", "CloseErr"}

\* A stream after Close has been called on it: nothing of it remains in use
\* but the number of times it was closed.
StreamClose(st) == [closes |-> st.closes + 1]

\* --------------------------------------------------------------- Reader

\* The record of a call: its name and arguments, what it returned, the
\* fields pos and r and the number of fetches as the call found them, and
\* the call that preceded it; cerr is what the stream's Close returned to it
\* ("nil" also when it closed no stream).
Call(op, arg, whence, n, ret, err, data, cerr) ==
  [op |-> op, arg |-> arg, whence |-> whence, n |-> n, ret |-> ret,
   err |-> err, data |-> data, cerr |-> cerr,
   pos0 |-> pos, r0 |-> r, f0 |-> fetches,
   prevOp |-> last.op, prevErr |-> last.err]

\* The fields of a Reader returned by NewReaderWithSize (reader.go:42-46),
\* and no call made yet.
NewReaderState ==
  /\ pos = 0
  /\ nread = 0
  /\ r = 0
  /\ streams = <<>>
  /\ fetches = 0
  /\ total = 0
  /\ readCalled = FALSE
  /\ pc = "idle"
  /\ pend = [k |-> 0, n |-> 0, err |-> "nil"]
  /\ obs = 0
  /\ step = 0

\* The record of the construction, before any call.
NoCall ==
  [op |-> "New", arg |-> 0, whence |-> 0, n |-> 0, ret |-> 0,
   err |-> "nil", data |-> <<>>, cerr |-> "nil",
   pos0 |-> 0, r0 |-> 0, f0 |-> 0,
   prevOp |-> "New", prevErr |-> "nil"]

\* NewReaderWithSize (and NewReader, which passes attrs.Size = Len(object)).
Init ==
  /\ object \in Objects
  /\ size \in 0..MaxSize
  /\ NewReaderState
  /\ p0 = 0
  /\ last = NoCall

\* Variant of NeedOpen: the bound test is off by one.
NeedOpen_AtEnd == r = 0 /\ pos <= size

\* Variant of NeedOpen: the test for an open stream is missing.
NeedOpen_IgnoreStream == pos < size

\* Variant of NeedOpen: a position before the start is rejected at once.
NeedOpen_Validated == r = 0 /\ pos >= 0 /\ pos < size

\* Read's condition for opening a range reader (reader.go:51).
NeedOpen == r = 0 /\ pos < size

\* Variant of ReadResult: bytes that come with an error are not counted.
ReadResult_CountCleanOnly(k, ss, id, out) ==
  /\ pos' = pos + out.n
  /\ nread' = IF out.err = "nil" THEN nread + out.n ELSE nread
  /\ r' = id
  /\ streams' = [ss EXCEPT ![id].delivered = @ + out.n]
  /\ last' = Call("Read", k, 0, out.n, 0, out.err, StreamData(ss[id], out.n),
               "nil")

\* Variant of ReadResult: pos is not advanced.
ReadResult_NoAdvance(k, ss, id, out) ==
  /\ pos' = pos
  /\ nread' = nread + out.n
  /\ r' = id
  /\ streams' = [ss EXCEPT ![id].delivered = @ + out.n]
  /\ last' = Call("Read", k, 0, out.n, 0, out.err, StreamData(ss[id], out.n),
               "nil")

\* Variant of ReadResult: the stream is dropped after each Read.
ReadResult_DropStream(k, ss, id, out) ==
  /\ pos' = pos + out.n
  /\ nread' = nread + out.n
  /\ r' = 0
  /\ streams' = [ss EXCEPT ![id] = StreamClose(@)]
  /\ last' = Call("Read", k, 0, out.n, 0, out.err, StreamData(ss[id], out.n),
               "nil")

\* What Read returns, and what it records in pos and nread (reader.go:61-64).
ReadResult(k, ss, id, out) ==
  /\ pos' = pos + out.n
  /\ nread' = nread + out.n
  /\ r' = id
  /\ streams' = [ss EXCEPT ![id].delivered = @ + out.n]
  /\ last' = Call("Read", k, 0, out.n, 0, out.err, StreamData(ss[id], out.n),
               "nil")

\* Variant of ReadEarly: a failed open is taken for the end of the object.
ReadEarly_GiveUp(k, e) ==
  /\ last' = Call("Read", k, 0, 0, 0, e, <<>>, "nil")
  /\ pos' = IF e = "EOF" THEN pos ELSE size
  /\ UNCHANGED <<nread, r, streams>>

\* Read's early returns (reader.go:55, reader.go:59).
ReadEarly(k, e) ==
  /\ last' = Call("Read", k, 0, 0, 0, e, <<>>, "nil")
  /\ UNCHANGED <<pos, nread, r, streams>>

Read(k) ==
  /\ readCalled' = TRUE
  /\ UNCHANGED <<object, size>>
  /\ IF NeedOpen
     THEN /\ fetches' = fetches + 1
          /\ \E o \in NewRangeReader(pos) :
               IF o.err # "nil"
               THEN ReadEarly(k, o.err)
               ELSE \E out \in StreamRead(o.stream, k) :
                      ReadResult(k, Append(streams, o.stream),
                                 Len(streams) + 1, out)
     ELSE /\ UNCHANGED fetches
          /\ IF r = 0
             THEN ReadEarly(k, "EOF")
             ELSE \E out \in StreamRead(streams[r], k) :
                    ReadResult(k, streams, r, out)
  /\ total' = total + last'.n

\* Variant of CloseOutcomes: the stream is left open and in place.
CloseOutcomes_KeepStream == {[err |-> "nil", r |-> r, streams |-> streams]}

\* Variant of CloseOutcomes: r is not set to nil after the stream is closed.
CloseOutcomes_KeepRef ==
  IF r = 0
  THEN {[err |-> "nil", r |-> r, streams |-> streams]}
  ELSE {[err |-> e, r |-> r,
         streams |-> [streams EXCEPT ![r].closes = @ + 1]] :
          e \in StreamCloseErrs}

\* Variant of CloseOutcomes: r is set to nil only when the stream's Close
\* returned no error.
CloseOutcomes_KeepOnError ==
  IF r = 0
  THEN {[err |-> "nil", r |-> r, streams |-> streams]}
  ELSE {[err |-> e, r |-> IF e = "nil" THEN 0 ELSE r,
         streams |-> [streams EXCEPT ![r].closes = @ + 1]] :
          e \in StreamCloseErrs}

\* r.Close() (reader.go:89-96): the error returned and the fields written.
CloseOutcomes ==
  IF r = 0
  THEN {[err |-> "nil", r |-> r, streams |-> streams]}
  ELSE {[err |-> e, r |-> 0,
         streams |-> [streams EXCEPT ![r] = StreamClose(@)]] :
          e \in StreamCloseErrs}

\* Variant of Close: closing also rewinds to the start of the object.
Close_Rewind ==
  /\ \E c \in CloseOutcomes :
       /\ r' = c.r
       /\ streams' = c.streams
       /\ last' = Call("Close", 0, 0, 0, 0, c.err, <<>>, c.err)
  /\ pos' = 0
  /\ UNCHANGED <<object, size, nread, fetches, total, readCalled>>

\* Variant of Close: a closed Reader stands at the end of the object.
Close_Terminal ==
  /\ \E c \in CloseOutcomes :
       /\ r' = c.r
       /\ streams' = c.streams
       /\ last' = Call("Close", 0, 0, 0, 0, c.err, <<>>, c.err)
  /\ pos' = Max(pos, size)
  /\ UNCHANGED <<object, size, nread, fetches, total, readCalled>>

Close ==
  /\ \E c \in CloseOutcomes :
       /\ r' = c.r
       /\ streams' = c.streams
       /\ last' = Call("Close", 0, 0, 0, 0, c.err, <<>>, c.err)
  /\ UNCHANGED <<object, size, pos, nread, fetches, total, readCalled>>

LegalWhence(whence) == whence \in {SeekStart, SeekCurrent, SeekEnd}

\* Variant of NewPos: the offset from the end is subtracted.
NewPos_EndSign(offset, whence) ==
  CASE whence = SeekStart -> offset
    [] whence = SeekCurrent -> pos + offset
    [] whence = SeekEnd -> size - offset

\* Variant of NewPos: a position before the start is clamped to the start.
NewPos_Clamp(offset, whence) ==
  CASE whence = SeekStart -> Max(0, offset)
    [] whence = SeekCurrent -> Max(0, pos + offset)
    [] whence = SeekEnd -> Max(0, size + offset)

\* Variant of NewPos: an offset from the current position is taken as the
\* position.
NewPos_CurrentAbs(offset, whence) ==
  CASE whence = SeekStart -> offset
    [] whence = SeekCurrent -> offset
    [] whence = SeekEnd -> size + offset

\* The switch of Seek (reader.go:74-83) for a legal whence.
NewPos(offset, whence) ==
  CASE whence = SeekStart -> offset
    [] whence = SeekCurrent -> pos + offset
    [] whence = SeekEnd -> size + offset

\* Variant of SeekPos: pos is moved before the error of Close is looked at.
SeekPos_IgnoreCloseErr(cerr, offset, whence) ==
  IF LegalWhence(whence) THEN NewPos(offset, whence) ELSE pos

\* The value of pos when Seek returns, cerr being what r.Close() returned
\* (reader.go:69-83).
SeekPos(cerr, offset, whence) ==
  IF cerr # "nil" THEN pos
  ELSE IF LegalWhence(whence) THEN NewPos(offset, whence)
  ELSE pos

\* What Seek returns (reader.go:71, 82, 85).
SeekReturn(cerr, offset, whence) ==
  IF cerr # "nil" THEN [ret |-> 0, err |-> cerr]
  ELSE IF LegalWhence(whence)
  THEN [ret |-> SeekPos(cerr, offset, whence), err |-> "nil"]
  ELSE [ret |-> 0, err |-> "IllegalWhence"]

\* Variant of Seek: the stream at the new position is opened at once.
Seek_Eager(offset, whence) ==
  /\ \E c \in CloseOutcomes :
       /\ pos' = SeekPos(c.err, offset, whence)
       /\ last' = Call("Seek", offset, whence, 0,
                       SeekReturn(c.err, offset, whence).ret,
                       SeekReturn(c.err, offset, whence).err, <<>>,
                       c.err)
       /\ IF /\ SeekReturn(c.err, offset, whence).err = "nil"
             /\ SeekPos(c.err, offset, whence) < size
             /\ SeekPos(c.err, offset, whence) <= Len(object)
          THEN /\ fetches' = fetches + 1
               /\ streams' = Append(c.streams,
                                    OpenStream(SeekPos(c.err, offset, whence)))
               /\ r' = Len(c.streams) + 1
          ELSE /\ r' = c.r
               /\ streams' = c.streams
               /\ UNCHANGED fetches
  /\ UNCHANGED <<object, size, nread, total, readCalled>>

Seek(offset, whence) ==
  /\ \E c \in CloseOutcomes :
       /\ r' = c.r
       /\ streams' = c.streams
       /\ pos' = SeekPos(c.err, offset, whence)
       /\ last' = Call("Seek", offset, whence, 0,
                       SeekReturn(c.err, offset, whence).ret,
                       SeekReturn(c.err, offset, whence).err, <<>>,
                       c.err)
  /\ UNCHANGED <<object, size, nread, fetches, total, readCalled>>

\* NRead (reader.go:100-102).
NRead == nread

\* The part of the state space that is explored.
Bounded ==
  /\ pos \in (0 - MaxPos)..MaxPos
  /\ nread <= MaxNRead
  /\ fetches <= MaxFetch

\* A caller that makes one call after the other.
CallRead(k) == Read(k) /\ Bounded' /\ UNCHANGED xvars
CallSeek(offset, whence) == Seek(offset, whence) /\ Bounded' /\ UNCHANGED xvars
CallClose == Close /\ UNCHANGED xvars

Next ==
  \/ \E k \in BufLens : CallRead(k)
  \/ \E offset \in Offsets, whence \in Whences : CallSeek(offset, whence)
  \/ CallClose

Spec == Init /\ [][Next]_vars

\* ------------------------------------- an observer of NRead beside a caller

\* Variant of AddInt64: the delta is stored, not added.
AddInt64_Store(v, delta) == delta

\* atomic.AddInt64(&v, delta) (reader.go:63): the value v holds afterwards.
\* The addition is one indivisible step.
AddInt64(v, delta) == v + delta

\* atomic.LoadInt64(&v) (reader.go:101): one indivisible step.
LoadInt64(v) == v

\* Read up to the return of r.r.Read(dest) (reader.go:51-61): the stream is
\* opened if needed and asked for len(dest) = k bytes; what it returned is
\* pending in pend.  The early returns (reader.go:55, 59) skip to the return.
ConcReadIO(k) ==
  /\ pc = "idle"
  /\ readCalled' = TRUE
  /\ IF NeedOpen
     THEN /\ fetches' = fetches + 1
          /\ \E o \in NewRangeReader(pos) :
               IF o.err # "nil"
               THEN /\ pend' = [k |-> k, n |-> 0, err |-> o.err]
                    /\ pc' = "ret"
                    /\ UNCHANGED <<r, streams>>
               ELSE \E out \in StreamRead(o.stream, k) :
                      /\ r' = Len(streams) + 1
                      /\ streams' = Append(streams,
                                       [o.stream EXCEPT !.delivered = out.n])
                      /\ pend' = [k |-> k, n |-> out.n, err |-> out.err]
                      /\ pc' = "pos"
     ELSE /\ UNCHANGED fetches
          /\ IF r = 0
             THEN /\ pend' = [k |-> k, n |-> 0, err |-> "EOF"]
                  /\ pc' = "ret"
                  /\ UNCHANGED <<r, streams>>
             ELSE \E out \in StreamRead(streams[r], k) :
                    /\ streams' = [streams EXCEPT ![r].delivered = @ + out.n]
                    /\ pend' = [k |-> k, n |-> out.n, err |-> out.err]
                    /\ pc' = "pos"
                    /\ UNCHANGED r
  /\ fetches' <= MaxFetch
  /\ pos + pend'.n <= MaxPos
  /\ nread + pend'.n <= MaxNRead
  /\ UNCHANGED <<object, size, pos, nread, total, last, obs, step, p0>>

\* r.pos += int64(n) (reader.go:62).
ConcReadPos ==
  /\ pc = "pos"
  /\ pos' = pos + pend.n
  /\ pc' = "add"
  /\ UNCHANGED <<object, size, nread, r, streams, fetches, total, readCalled,
                 last, pend, obs, step, p0>>

\* atomic.AddInt64(&r.nread, int64(n)) (reader.go:63).
ConcReadAdd ==
  /\ pc = "add"
  /\ nread' = AddInt64(nread, pend.n)
  /\ pc' = "ret"
  /\ UNCHANGED <<object, size, pos, r, streams, fetches, total, readCalled,
                 last, pend, obs, step, p0>>

\* Read returns (n, err) (reader.go:55, 59, 64): the caller has n more bytes.
ConcReadRet ==
  /\ pc = "ret"
  /\ total' = total + pend.n
  /\ pc' = "idle"
  /\ UNCHANGED <<object, size, pos, nread, r, streams, fetches, readCalled,
                 last, pend, obs, step, p0>>

\* Seek and Close are called by the goroutine that calls Read, between its
\* Reads.
ConcSeek(offset, whence) ==
  /\ pc = "idle"
  /\ \E c \in CloseOutcomes :
       /\ r' = c.r
       /\ streams' = c.streams
       /\ pos' = SeekPos(c.err, offset, whence)
  /\ UNCHANGED <<object, size, nread, fetches, total, readCalled, last>>
  /\ UNCHANGED xvars
  /\ Bounded'

ConcClose ==
  /\ pc = "idle"
  /\ \E c \in CloseOutcomes :
       /\ r' = c.r
       /\ streams' = c.streams
  /\ UNCHANGED <<object, size, pos, nread, fetches, total, readCalled, last>>
  /\ UNCHANGED xvars

\* Another goroutine calls NRead (reader.go:100-102) at any moment.
Observe ==
  /\ obs' = LoadInt64(nread)
  /\ UNCHANGED <<object, size, pos, nread, r, streams, fetches, total,
                 readCalled, last, pc, pend, step, p0>>

ConcNext ==
  \/ \E k \in BufLens : ConcReadIO(k)
  \/ ConcReadPos
  \/ ConcReadAdd
  \/ ConcReadRet
  \/ \E offset \in Offsets, whence \in Whences : ConcSeek(offset, whence)
  \/ ConcClose
  \/ Observe

SpecConc == Init /\ [][ConcNext]_vars

\* ------------------------------------------------- the worked scenario

\* An object of 1000 bytes, byte i having the value i.
ScenarioObject == [i \in 1..1000 |-> i - 1]

\* NewReaderWithSize(ctx, obj, 1000) on that object.
ScenarioInit ==
  /\ object = ScenarioObject
  /\ size = Len(ScenarioObject)
  /\ NewReaderState
  /\ p0 = 0
  /\ last = NoCall

\* The calls Seek(500, start), Seek(-50, current) and Seek(0, end), which are
\* the first, third and fifth call.
ScenarioSeek ==
  /\ \/ step = 0 /\ Seek(500, SeekStart)
     \/ step = 2 /\ Seek(0 - 50, SeekCurrent)
     \/ step = 4 /\ Seek(0, SeekEnd)
  /\ step' = step + 1
  /\ UNCHANGED <<pc, pend, obs, p0>>

\* The calls Read(100 bytes), Read(10 bytes) and Read(anything), which are
\* the second, fourth and sixth call.
ScenarioRead ==
  /\ \/ step = 1 /\ Read(100)
     \/ step = 3 /\ Read(10)
     \/ step = 5 /\ \E k \in BufLens : Read(k)
  /\ step' = step + 1
  /\ UNCHANGED <<pc, pend, obs, p0>>

ScenarioNext == ScenarioSeek \/ ScenarioRead

SpecScenario == ScenarioInit /\ [][ScenarioNext]_vars

\* ------------------------------------------------- reading to the end

\* NewReader on an object of up to MaxDrainLen bytes: size is its length.
DrainInit ==
  /\ object \in {[i \in 1..n |-> i - 1] : n \in 0..MaxDrainLen}
  /\ size = Len(object)
  /\ NewReaderState
  /\ p0 = 0
  /\ last = NoCall

\* The caller moves to a position p within the object.
DrainSeek ==
  /\ step = 0
  /\ \E p \in 0..size :
       /\ Seek(p, SeekStart)
       /\ p0' = p
  /\ step' = 1
  /\ UNCHANGED <<pc, pend, obs>>

\* The caller reads with a buffer that is not empty, and neither the open
\* nor the stream fails.
DrainRead ==
  /\ step = 1
  /\ \E k \in 1..MaxBuf : Read(k)
  /\ last'.err \in {"nil", "EOF"}
  /\ UNCHANGED xvars

DrainNext == DrainSeek \/ DrainRead

\* The caller keeps calling.
SpecDrain ==
  /\ DrainInit
  /\ [][DrainNext]_vars
  /\ WF_vars(DrainSeek)
  /\ WF_vars(DrainRead)

\* ------------------------------------------------------------ properties

\* The object is the one the Reader was told about: size is its length.
KnownSize == size = Len(object)

\* data is the n bytes of the object at positions p .. p+n-1.
IsObjectRange(data, p, n) ==
  /\ Len(data) = n
  /\ n > 0 => /\ p >= 0
              /\ p + n <= Len(object)
              /\ data = SubSeq(object, p + 1, p + n)

\* The last call is a Read that directly follows a Seek that returned a
\* position (last.pos0 is that position, see C1_SeekReturnsPos).
ReadAfterSeek ==
  /\ last.op = "Read"
  /\ last.prevOp = "Seek"
  /\ last.prevErr = "nil"

C1_SeekReturnsPos == (last.op = "Seek" /\ last.err = "nil") => last.ret = pos

\* C1 as stated: for an object of known content and size, a Seek with a
\* legal origin that returns p, followed by a Read that delivers n bytes,
\* delivers the object's bytes [p, p+n) and leaves pos = p+n.
C1_SeekThenReadAnyPos ==
  /\ C1_SeekReturnsPos
  /\ (ReadAfterSeek /\ KnownSize) =>
       /\ IsObjectRange(last.data, last.pos0, last.n)
       /\ pos = last.pos0 + last.n

\* C1 amended: the same, for a Seek that returns a position p >= 0.
C1_SeekThenRead ==
  /\ C1_SeekReturnsPos
  /\ (ReadAfterSeek /\ KnownSize /\ last.pos0 >= 0) =>
       /\ IsObjectRange(last.data, last.pos0, last.n)
       /\ pos = last.pos0 + last.n

C1_Witness ==
  /\ ReadAfterSeek /\ KnownSize
  /\ object = <<0, 1>>
  /\ last.pos0 = 1 /\ last.n = 1 /\ last.data = <<1>>
  /\ fetches = 2

\* C2 as stated: a Read called while pos >= size returns 0 bytes and EOF,
\* opens no range reader and returns no other error.
C2_ReadAtEndAlwaysEOF ==
  (last.op = "Read" /\ last.pos0 >= size) =>
    /\ last.n = 0
    /\ last.err = "EOF"
    /\ fetches = last.f0

\* C2 amended: a Read called while pos >= size never opens a range reader;
\* when no stream is open at the call it returns 0 bytes and EOF and leaves
\* pos and r as they were; when a stream is open the Read is passed to it.
C2_ReadAtEnd ==
  (last.op = "Read" /\ last.pos0 >= size) =>
    /\ fetches = last.f0
    /\ last.r0 = 0 => (last.n = 0 /\ last.err = "EOF" /\ r = 0 /\ pos = last.pos0)
    /\ last.r0 # 0 => r = last.r0

C2_Witness ==
  /\ last.op = "Read" /\ last.pos0 >= size
  /\ last.r0 = 0 /\ last.pos0 > 0 /\ last.arg > 0
  /\ last.err = "EOF"
  /\ nread > 0

\* C3: NRead never decreases and equals the sum of the byte counts that the
\* Reads so far have returned, across seeks and reopened streams.
C3_CounterExact == [](NRead = total) /\ [][NRead' >= NRead]_vars

C3_Witness ==
  /\ last.op = "Read" /\ last.n > 0
  /\ fetches = 2 /\ Len(streams) = 2
  /\ NRead > last.n

\* C4: a Seek with an illegal whence returns an error, leaves pos unchanged,
\* and a stream that was open before the call is still open and not closed.
C4_IllegalWhenceNoMutation ==
  (last.op = "Seek" /\ ~LegalWhence(last.whence)) =>
    /\ last.err # "nil"
    /\ pos = last.pos0
    /\ r = last.r0
    /\ last.r0 # 0 => streams[last.r0].closes = 0

\* C5: NewRangeReader is called only by Read.  Without a Read there is no
\* fetch and no stream, and no Seek or Close issues a fetch or opens a stream.
C5_LazyOpen ==
  /\ ~readCalled => (fetches = 0 /\ r = 0 /\ streams = <<>>)
  /\ last.op \in {"Seek", "Close"} => (fetches = last.f0 /\ r = 0)

C5_Witness ==
  /\ ~readCalled
  /\ last.op = "Seek" /\ last.prevOp = "Seek"
  /\ last.err = "nil"
  /\ pos > 0 /\ pos < size
  /\ fetches = 0

\* The streams that have been opened and on which Close was never called.
Unreleased == {i \in 1..Len(streams) : streams[i].closes = 0}

\* C6: at most one stream is opened and not yet released, and it is r: the
\* unreleased streams are {r} when r is set and none when r is nil; after a
\* Close call no stream remains unreleased.
C6_OneStream ==
  /\ Unreleased = (IF r = 0 THEN {} ELSE {r})
  /\ last.op = "Close" => Unreleased = {}

C6_Witness ==
  /\ Len(streams) = 2
  /\ r = 2
  /\ Unreleased = {2}
  /\ streams[1].closes = 1

\* C7: a Close called when no stream is open returns no error and changes
\* nothing, and no stream is ever closed more than once.
C7_IdempotentClose ==
  /\ [](\A i \in 1..Len(streams) : streams[i].closes <= 1)
  /\ [][(last'.op = "Close" /\ r = 0) =>
          /\ last'.err = "nil"
          /\ UNCHANGED <<object, size, pos, nread, r, streams, fetches>>]_vars

C7_Witness ==
  /\ last.op = "Close" /\ last.prevOp = "Close"
  /\ last.r0 = 0
  /\ last.err = "nil"
  /\ Len(streams) = 1 /\ streams[1].closes = 1

\* C8: when the open in Read fails, Read returns 0 bytes and that error, and
\* pos, nread, size and r (still nil) are as before the call, so that the
\* next Read opens again at the same position.
C8_OpenFailure ==
  [][(last'.op = "Read" /\ last'.err = "OpenErr") =>
       /\ last'.n = 0
       /\ UNCHANGED <<size, pos, nread, r, streams>>
       /\ r' = 0
       /\ NeedOpen']_vars

C8_Witness ==
  /\ last.op = "Read" /\ last.err = "OpenErr"
  /\ last.prevOp = "Read" /\ last.prevErr = "OpenErr"
  /\ last.pos0 > 0
  /\ fetches = 2

\* C9: when closing the open stream fails during Seek, Seek returns that
\* error and pos is as it was before the call, for every whence and offset.
C9_SeekCloseFailure ==
  (last.op = "Seek" /\ last.cerr # "nil") =>
    /\ last.err = last.cerr
    /\ pos = last.pos0

C9_Witness ==
  /\ last.op = "Seek" /\ last.cerr = "CloseErr"
  /\ last.r0 # 0 /\ streams[last.r0].closes = 1
  /\ last.whence = SeekStart
  /\ last.arg # last.pos0

\* C10 as stated: 0 <= pos in every reachable state.
C10_PosNonNegative == pos >= 0

\* The position the switch of Seek computes, written out.
SeekTarget(offset, whence, oldpos) ==
  IF whence = SeekStart THEN offset
  ELSE IF whence = SeekCurrent THEN oldpos + offset
  ELSE size + offset

\* C10 amended: pos is lowered only by a Seek that returns no error, which
\* sets it to the position computed from whence and offset, negative or
\* not; Read and Close never lower pos, and pos may exceed size.
C10_PosLoweredOnlyBySeek ==
  [][pos' < pos =>
       /\ last'.op = "Seek"
       /\ last'.err = "nil"
       /\ LegalWhence(last'.whence)
       /\ pos' = SeekTarget(last'.arg, last'.whence, pos)]_vars

C10_Witness ==
  /\ last.op = "Seek" /\ last.err = "nil"
  /\ last.whence = SeekEnd
  /\ pos < 0
  /\ last.pos0 > size

\* C11: a Seek whose Close succeeded sets pos to offset (start), to the
\* previous pos + offset (current) or to size + offset (end), returns that
\* value and no error, also when it is negative or beyond size.
C11_SeekArithmetic ==
  (last.op = "Seek" /\ last.cerr = "nil" /\ LegalWhence(last.whence)) =>
    /\ last.err = "nil"
    /\ pos = SeekTarget(last.arg, last.whence, last.pos0)
    /\ last.ret = pos

C11_Witness ==
  /\ last.op = "Seek" /\ last.cerr = "nil"
  /\ last.r0 # 0 /\ streams[last.r0].closes = 1
  /\ last.whence = SeekCurrent /\ last.arg = 0 - 1
  /\ last.pos0 = 0
  /\ pos = 0 - 1 /\ last.ret = 0 - 1

\* C14: after every Seek, whatever its whence, offset and outcome, r is nil
\* and the stream that was open has been closed, so that a Read that follows
\* at a position below size calls NewRangeReader again.
C14_SeekReleases ==
  /\ last.op = "Seek" =>
       /\ r = 0
       /\ last.r0 # 0 => streams[last.r0].closes = 1
  /\ (last.op = "Read" /\ last.prevOp = "Seek" /\ last.pos0 < size) =>
       fetches = last.f0 + 1

C14_Witness ==
  /\ last.op = "Seek"
  /\ last.whence = SeekCurrent /\ last.arg = 0
  /\ last.r0 # 0
  /\ last.cerr = "CloseErr"
  /\ r = 0

\* C15: while a stream is open, the offset it was opened at plus the bytes
\* it has delivered is pos; pos changes under the same open stream only by
\* a Read, which advances pos and the stream by the n it returns.
C15_Alignment ==
  /\ [](r # 0 => streams[r].start + streams[r].delivered = pos)
  /\ [][(r # 0 /\ r' = r /\ pos' # pos) =>
          /\ last'.op = "Read"
          /\ pos' - pos = last'.n
          /\ streams'[r].delivered - streams[r].delivered = last'.n]_vars

C15_Witness ==
  /\ last.op = "Read" /\ last.n = 1
  /\ r # 0 /\ last.r0 = r
  /\ streams[r].start = 0 /\ streams[r].delivered = 2
  /\ pos = 2

\* C16: no call changes size; Seek and Close do not change nread; Close
\* does not change pos; a Read that returns 0 bytes changes neither pos nor
\* nread.
C16_Frame ==
  [][/\ size' = size
     /\ last'.op \in {"Seek", "Close"} => nread' = nread
     /\ last'.op = "Close" => pos' = pos
     /\ (last'.op = "Read" /\ last'.n = 0) => (pos' = pos /\ nread' = nread)]_vars

C16_Witness ==
  /\ last.op = "Close"
  /\ last.r0 # 0
  /\ last.pos0 > 0 /\ pos = last.pos0
  /\ nread > 0

\* The Read that follows a Seek which returned a negative position has
\* called NewRangeReader.
NegativeReadFetches ==
  (ReadAfterSeek /\ last.pos0 < 0) => fetches = last.f0 + 1

\* C17 as stated (here for a non-empty object of known size): after a Seek
\* that returned a negative position the next Read does not return EOF or an
\* error of its own: it calls NewRangeReader with the negative offset and
\* returns what that call returns.
C17_NegativeReadReturnsOpenResult ==
  /\ NegativeReadFetches
  /\ (ReadAfterSeek /\ last.pos0 < 0 /\ KnownSize /\ size > 0) =>
       /\ last.err # "EOF"
       /\ r = 0 => (last.err = "OpenErr" /\ last.n = 0)

\* C17 amended: the Read calls NewRangeReader with the negative offset; when
\* that fails it returns 0 bytes and the error and leaves pos; when it
\* succeeds it returns what the opened stream's Read returns (EOF included)
\* and advances pos by n.
C17_NegativeReadDeferred ==
  /\ NegativeReadFetches
  /\ (ReadAfterSeek /\ last.pos0 < 0) =>
       /\ r = 0 => (last.err = "OpenErr" /\ last.n = 0 /\ pos = last.pos0)
       /\ r # 0 => /\ r = Len(streams)
                   /\ streams[r].start = last.pos0
                   /\ streams[r].delivered = last.n
                   /\ pos = last.pos0 + last.n
                   /\ last.err # "OpenErr"

C17_Witness ==
  /\ ReadAfterSeek /\ KnownSize
  /\ last.pos0 = 0 - 1
  /\ r # 0
  /\ last.n = 1 /\ last.data = <<1>>
  /\ last.err = "EOF"

\* The Read that follows a Close at a position below size opens a stream at
\* exactly that position and delivers the bytes that stream starts with.
ReadAfterClose ==
  (last.op = "Read" /\ last.prevOp = "Close" /\ last.pos0 < size) =>
    /\ last.r0 = 0
    /\ fetches = last.f0 + 1
    /\ r # 0 => /\ r = Len(streams)
                /\ streams[r].start = last.pos0
                /\ pos = last.pos0 + last.n
                /\ last.data = SubSeq(object, OpenStream(last.pos0).base + 1,
                                      OpenStream(last.pos0).base + last.n)

\* C18 as stated: Close keeps pos, a Read after Close opens a fresh stream at
\* the retained pos, and (for an object of known size and a retained pos
\* below size) that stream starts at the byte where the closed stream stood,
\* so that Read; Close; Read delivers what Read; Read delivers.
C18_CloseResumesAnywhere ==
  /\ []ReadAfterClose
  /\ [][(last'.op = "Close") =>
          /\ pos' = pos
          /\ (r # 0 /\ KnownSize /\ pos' < size) =>
               OpenStream(pos').base = Cursor(streams[r])]_vars

\* C18 amended: the same, the resumption at the byte where the closed stream
\* stood being claimed for a stream that was opened at a position >= 0.
C18_CloseResumes ==
  /\ []ReadAfterClose
  /\ [][(last'.op = "Close") =>
          /\ pos' = pos
          /\ (r # 0 /\ streams[r].start >= 0) =>
               OpenStream(pos').base = Cursor(streams[r])]_vars

C18_Witness ==
  /\ last.op = "Read" /\ last.prevOp = "Close"
  /\ last.pos0 = 1 /\ last.n = 1 /\ last.data = <<1>>
  /\ last.f0 = 1 /\ fetches = 2
  /\ nread = 2

\* The bytes with the values from .. from + n - 1.
Values(from, n) == [i \in 1..n |-> from + i - 1]

\* C13: on the object of 1000 bytes, the Seeks that succeed return 500, 550
\* and 1000; the Reads that deliver the full count deliver the bytes 500..599
\* with NRead = 100, then 550..559 with NRead = 110; the last Read returns
\* 0 bytes and EOF with NRead still 110.
C13_Scenario ==
  /\ (step = 1 /\ last.err = "nil") => (last.ret = 500 /\ pos = 500)
  /\ (step = 2 /\ last.n = 100) =>
       /\ last.data = Values(500, 100)
       /\ NRead = 100
  /\ (step = 3 /\ last.err = "nil" /\ NRead = 100) =>
       (last.ret = 550 /\ pos = 550)
  /\ (step = 4 /\ last.prevErr = "nil" /\ last.n = 10 /\ last.pos0 = 550) =>
       /\ last.data = Values(550, 10)
       /\ NRead = 110
  /\ (step = 5 /\ last.err = "nil") => (last.ret = 1000 /\ pos = 1000)
  /\ (step = 6 /\ last.prevErr = "nil") =>
       /\ last.n = 0
       /\ last.err = "EOF"
       /\ (total = 110 => NRead = 110)

C13_Witness ==
  /\ step = 6
  /\ last.prevErr = "nil"
  /\ last.n = 0 /\ last.err = "EOF"
  /\ last.pos0 = 1000
  /\ NRead = 110
  /\ fetches = 2

\* The bytes delivered by the Reads that have returned, and by the Read in
\* progress once it has added its count.
Counted == IF pc = "ret" THEN total + pend.n ELSE total

\* C12: every value an observer gets from NRead, at whatever point between
\* the steps of Read, Seek and Close, is the number of bytes delivered by the
\* Reads up to and including some Read (here: all the Reads that have
\* returned, and the Read in progress once it has counted its bytes), and a
\* later observation is never smaller than an earlier one.
C12_ObservedCount ==
  [][obs' # obs => (obs' = Counted' /\ obs' > obs)]_vars

C12_Witness ==
  /\ pc = "ret"
  /\ pend.n > 0
  /\ total > 0
  /\ obs = total + pend.n

\* A Read has just returned the end of the stream.
ReadEOF == last.op = "Read" /\ last.err = "EOF"

\* C19: when neither the open nor the stream fails, size is the length of
\* the object and every Read on a stream delivers at least one byte until
\* the end, a caller that seeks to p in 0..size and then keeps calling Read
\* with a buffer that is not empty eventually gets the end of the stream;
\* whenever it does, pos = size, size - p bytes have been delivered since
\* the Seek, and one range fetch was issued if p < size and none if p = size.
C19_ReadToEnd ==
  /\ <>ReadEOF
  /\ [](ReadEOF =>
          /\ pos = size
          /\ total = size - p0
          /\ fetches = IF p0 < size THEN 1 ELSE 0)

C19_Witness ==
  /\ ReadEOF
  /\ p0 > 0 /\ p0 < size
  /\ total = size - p0
  /\ total > 1
  /\ fetches = 1

====
